---- MODULE Spec2Model ----
(***************************************************************************)
(* Model of the useSound hook (src/src/hooks/useSound.ts): one hook        *)
(* instance ("loader") with its refs, the loads it has started, the audio  *)
(* contexts it has created and the playback sessions it has started.       *)
(* The JavaScript event loop is modelled at the granularity of its tasks:  *)
(* a trigger, the unmount cleanup, the settling of one fetch/decode, the   *)
(* continuation of loadSounds after Promise.all, the then-callback that    *)
(* replays play(), the ended event of a source, and a mute toggle.         *)
(***************************************************************************)
EXTENDS Integers, Sequences, FiniteSets, TLC

\* Bound of the model: the number of calls of the returned play function.
MaxTriggers == 2

VARIABLES
  urls,               \* the resource list passed to the hook
  lazyLoad,           \* options.lazyLoad
  shuffle,            \* options.shuffle
  oneShot,            \* options.oneShot
  fallbackToSilence,  \* options.fallbackToSilence: "undefined", "true", "false"
  muted,              \* the context's mute flag
  contextRef,         \* contextRef.current: 0 is null, else a context id
  buffersRef,         \* buffersRef.current: sequence of buffers
  hasLoaded,          \* hasLoaded.current
  contexts,           \* every AudioContext created so far, by id
  loads,              \* every loadSounds call that got past its guard
  sessions,           \* every source node that was started
  triggers,           \* number of calls of the returned play function
  disposed,           \* the effect cleanup has run
  provider,           \* SoundedProvider: "unmounted", "mounted", "update", "settled"
  stored,             \* localStorage 'plebs-muted': "null", "true", "false"
  storedAtMount,      \* what localStorage held when the provider mounted
  mounts,             \* number of times the provider has mounted
  theme,              \* the provider's theme prop
  overrideClick,      \* the overrideClick prop of Sounded, "" when absent
  props,              \* the flags of Sounded and the handlers of its child
  event,              \* the last event on the wrapped element
  calls               \* the calls its injected handler made, in order

options == <<urls, lazyLoad, shuffle, oneShot, fallbackToSilence>>
refs == <<contextRef, buffersRef, hasLoaded>>
persistence == <<provider, stored, storedAtMount, mounts>>
soundPack == <<theme, overrideClick>>
wrapper == <<props, event, calls>>
loader == <<contextRef, buffersRef, hasLoaded, contexts, loads, sessions,
            triggers, disposed>>
vars == <<urls, lazyLoad, shuffle, oneShot, fallbackToSilence, muted,
          contextRef, buffersRef, hasLoaded, contexts, loads, sessions,
          triggers, disposed, provider, stored, storedAtMount, mounts,
          theme, overrideClick, props, event, calls>>

\* The resource lists the hook is called with: none, one and two resources.
\* Whether a resource loads is decided per fetch, not by its name.
UrlLists == {<<>>, <<"a.snd">>, <<"a.snd", "b.snd">>}

\* new AudioContext(): an open context, remembered with the code that made it.
NewContext(by) == [by |-> by, closes |-> 0]

\* context.close()
Close(ctxs, c) == [ctxs EXCEPT ![c].closes = @ + 1]

\* The buffer decoded from entry i of the list by load l.
Buffer(l, i) == [load |-> l, idx |-> i]

\* context.createBuffer(1, 1, context.sampleRate): the silent buffer of load l.
Silence(l) == [load |-> l, idx |-> 0]

\* The per-url promises of one loadSounds call, all pending.
NewLoad(c, replay, m) ==
  [context |-> c,
   results |-> [i \in 1..Len(urls) |-> "pending"],
   errors  |-> [i \in 1..Len(urls) |-> 0],
   status  |-> "pending",
   then    |-> IF replay THEN "attached" ELSE "none",
   muted   |-> m,
   urls    |-> urls]

\* A Promise.race in place of Promise.all: the first settled promise resolves it.
AnySettled(results) ==
  Len(results) = 0 \/ \E i \in 1..Len(results) : results[i] # "pending"

\* Promise.all: every per-url promise has settled.
AllSettled(results) == \A i \in 1..Len(results) : results[i] # "pending"

RECURSIVE Filter(_, _, _)
\* decoded.filter(Boolean): the decoded buffers, in list order, from entry i on.
Filter(l, results, i) ==
  IF i > Len(results) THEN <<>>
  ELSE IF results[i] = "ok"
       THEN <<Buffer(l, i)>> \o Filter(l, results, i + 1)
       ELSE Filter(l, results, i + 1)

\* decoded without its filter: failed entries stay in the set.
Unfiltered(l, results) == [i \in 1..Len(results) |-> Buffer(l, i)]

\* buffersRef.current = decoded.filter(Boolean), for the results of load l.
Decoded(l, results) == Filter(l, results, 1)

\* A then-callback is queued: it runs before any other task.
Microtask == \E l \in 1..Len(loads) : loads[l].then = "queued"

\* The refs after the first render and its effect: an eager load is in flight.
FirstRender ==
  /\ buffersRef = <<>>
  /\ hasLoaded = FALSE
  /\ contexts = IF lazyLoad THEN <<>> ELSE <<NewContext("load")>>
  /\ contextRef = IF lazyLoad THEN 0 ELSE 1
  /\ loads = IF lazyLoad THEN <<>> ELSE <<NewLoad(1, FALSE, FALSE)>>
  /\ sessions = <<>>
  /\ triggers = 0
  /\ disposed = FALSE

\* A provider that mounted with nothing stored and has run its effects.
ProviderSettled ==
  /\ muted = FALSE
  /\ provider = "settled"
  /\ stored = "false"
  /\ storedAtMount = "null"
  /\ mounts = 1

\* The default theme and no override.
DefaultSound == theme = "light" /\ overrideClick = ""

\* A Sounded element with no flag set and no handler on its child, untouched.
Untouched ==
  /\ props = [sound |-> "undefined", clickSound |-> "undefined",
              hoverSound |-> "undefined", onClick |-> FALSE,
              onMouseEnter |-> FALSE]
  /\ event = "none"
  /\ calls = <<>>

\* State after the first render and its effect, for every use of the hook.
\* The provider starts unmuted; a stored mute flag arrives as a later toggle.
Init ==
  /\ urls \in UrlLists
  /\ lazyLoad \in BOOLEAN
  /\ shuffle \in BOOLEAN
  /\ oneShot \in BOOLEAN
  /\ fallbackToSilence \in {"undefined", "true", "false"}
  /\ FirstRender
  /\ ProviderSettled
  /\ DefaultSound
  /\ Untouched

\* loadSounds up to its await, called with the loads lds; replay says that
\* the caller chains .then(() => play()).
LoadSounds(replay, m, lds) ==
  IF hasLoaded
  THEN /\ loads' = lds
       /\ UNCHANGED <<contextRef, contexts>>
  ELSE /\ contexts' = Append(contexts, NewContext("load"))
       /\ contextRef' = Len(contexts) + 1
       /\ loads' = Append(lds, NewLoad(Len(contexts) + 1, replay, m))

\* play without its mute check.
NoMuteCheck(m) == FALSE

\* if (muted) return
MuteCheck(m) == m

\* if (!hasLoaded.current && lazyLoad)
NeedsLoad == ~hasLoaded /\ lazyLoad

\* if (!context || buffersRef.current.length === 0) return
NothingToPlay(context) == context = 0 \/ Len(buffersRef) = 0

\* A random index whatever the shuffle option says.
AnyIndex == 0..(Len(buffersRef) - 1)

\* The indexes play may pick.
Indexes == IF shuffle THEN 0..(Len(buffersRef) - 1) ELSE {0}

\* play, of a render whose mute flag is m, called with the loads lds.
Play(m, lds) ==
  IF MuteCheck(m)
  THEN /\ loads' = lds
       /\ UNCHANGED <<contextRef, buffersRef, hasLoaded, contexts, sessions>>
  ELSE IF NeedsLoad
  THEN /\ LoadSounds(TRUE, m, lds)
       /\ UNCHANGED <<buffersRef, hasLoaded, sessions>>
  ELSE LET ctxs == IF oneShot THEN Append(contexts, NewContext("play"))
                   ELSE contexts
           context == IF oneShot THEN Len(ctxs) ELSE contextRef
       IN /\ contexts' = ctxs
          /\ loads' = lds
          /\ UNCHANGED <<contextRef, buffersRef, hasLoaded>>
          /\ IF NothingToPlay(context)
             THEN UNCHANGED sessions
             ELSE \E index \in Indexes :
                    sessions' = Append(sessions,
                      [context  |-> context,
                       index    |-> index,
                       buffer   |-> buffersRef[index + 1],
                       set      |-> buffersRef,
                       onended  |-> oneShot,
                       ended    |-> FALSE,
                       loaded   |-> hasLoaded])

\* A UI event calls the play function of the current render.
Trigger ==
  /\ ~Microtask
  /\ triggers < MaxTriggers
  /\ triggers' = triggers + 1
  /\ Play(muted, loads)
  /\ UNCHANGED <<options, muted, disposed>>
  /\ UNCHANGED <<persistence, soundPack, wrapper>>

\* One fetch + decode of load l settles; a failure reaches the catch block,
\* which calls options.onLoadError and yields null.
Settle(l, i, ok) ==
  /\ ~Microtask
  /\ loads[l].status = "pending"
  /\ loads[l].results[i] = "pending"
  /\ loads' = [loads EXCEPT ![l].results[i] = IF ok THEN "ok" ELSE "fail",
                            ![l].errors[i] = IF ok THEN @ ELSE @ + 1]
  /\ UNCHANGED <<options, muted, refs, contexts, sessions, triggers, disposed>>
  /\ UNCHANGED <<persistence, soundPack, wrapper>>

\* The fallback taken only when the option is given as true.
FallbackOnlyIfTrue == fallbackToSilence = "true"

\* if (options.fallbackToSilence !== false)
SilentFallback == fallbackToSilence # "false"

\* A completion that leaves the loaded flag as it was.
LoadedFlagKept == hasLoaded

\* hasLoaded.current = true
LoadedFlagSet == TRUE

\* loadSounds after its await: filter, silent fallback or throw, mark loaded.
LoadComplete(l) ==
  /\ ~Microtask
  /\ loads[l].status = "pending"
  /\ AllSettled(loads[l].results)
  /\ LET decoded == Decoded(l, loads[l].results)
     IN IF Len(decoded) = 0 /\ ~SilentFallback
        THEN /\ buffersRef' = <<>>
             /\ loads' = [loads EXCEPT ![l].status = "rejected"]
             /\ UNCHANGED hasLoaded
        ELSE /\ buffersRef' = IF Len(decoded) = 0 THEN <<Silence(l)>>
                              ELSE decoded
             /\ hasLoaded' = LoadedFlagSet
             /\ loads' = [loads EXCEPT
                  ![l].status = "resolved",
                  ![l].then = IF @ = "attached" THEN "queued" ELSE @]
  /\ UNCHANGED <<options, muted, contextRef, contexts, sessions, triggers,
                 disposed>>
  /\ UNCHANGED <<persistence, soundPack, wrapper>>

\* The then-callback of a lazy trigger: play() of the render that started l.
Replay(l) ==
  /\ loads[l].then = "queued"
  /\ Play(loads[l].muted, [loads EXCEPT ![l].then = "ran"])
  /\ UNCHANGED <<options, muted, triggers, disposed>>
  /\ UNCHANGED <<persistence, soundPack, wrapper>>

\* The onended handler of a one-shot source: it closes the source's context.
SessionEnded(s) ==
  /\ ~Microtask
  /\ sessions[s].onended
  /\ ~sessions[s].ended
  /\ sessions' = [sessions EXCEPT ![s].ended = TRUE]
  /\ contexts' = Close(contexts, sessions[s].context)
  /\ UNCHANGED <<options, muted, refs, loads, triggers, disposed>>
  /\ UNCHANGED <<persistence, soundPack, wrapper>>

\* The cleanup of the mount effect.
Dispose ==
  /\ ~Microtask
  /\ ~disposed
  /\ contexts' = IF contextRef # 0 THEN Close(contexts, contextRef)
                 ELSE contexts
  /\ contextRef' = 0
  /\ buffersRef' = <<>>
  /\ disposed' = TRUE
  /\ UNCHANGED <<options, muted, hasLoaded, loads, sessions, triggers>>
  /\ UNCHANGED <<persistence, soundPack, wrapper>>

\* toggleMute: setMuted(prev => !prev) and the re-render it causes; the
\* effect that persists the flag is pending.
ToggleMute ==
  /\ ~Microtask
  /\ provider = "settled"
  /\ muted' = ~muted
  /\ provider' = "update"
  /\ UNCHANGED <<options, loader, stored, storedAtMount, mounts, soundPack,
                 wrapper>>

\* String(muted)
String(b) == IF b THEN "true" ELSE "false"

\* The effect on [muted]: localStorage.setItem('plebs-muted', String(muted)).
PersistMuted ==
  /\ provider \in {"restore", "update"}
  /\ stored' = String(muted)
  /\ provider' = "settled"
  /\ UNCHANGED <<options, muted, loader, storedAtMount, mounts, soundPack,
                 wrapper>>

Next ==
  \/ Trigger
  \/ \E l \in 1..Len(loads) : \E i \in 1..Len(urls) : \E ok \in BOOLEAN :
       Settle(l, i, ok)
  \/ \E l \in 1..Len(loads) : LoadComplete(l)
  \/ \E l \in 1..Len(loads) : Replay(l)
  \/ \E s \in 1..Len(sessions) : SessionEnded(s)
  \/ Dispose
  \/ ToggleMute
  \/ PersistMuted

Spec == Init /\ [][Next]_vars

(***************************************************************************)
(* SoundedProvider: the mute flag and its copy in localStorage.            *)
(***************************************************************************)

\* Number of sessions (mounts of the provider) explored.
MaxMounts == 8

\* A hook that loads lazily and is never triggered: nothing is created.
Idle ==
  /\ urls = <<>>
  /\ lazyLoad = TRUE
  /\ shuffle = FALSE
  /\ oneShot = FALSE
  /\ fallbackToSilence = "undefined"
  /\ FirstRender

\* A fresh browser: nothing stored, no provider mounted yet.
InitProvider ==
  /\ Idle
  /\ muted = FALSE
  /\ provider = "unmounted"
  /\ stored = "null"
  /\ storedAtMount = "null"
  /\ mounts = 0
  /\ DefaultSound
  /\ Untouched

\* First render of the provider: useState(false); its effects are pending.
ProviderMount ==
  /\ provider = "unmounted"
  /\ mounts < MaxMounts
  /\ mounts' = mounts + 1
  /\ muted' = FALSE
  /\ storedAtMount' = stored
  /\ provider' = "mounted"
  /\ UNCHANGED <<options, loader, stored, soundPack, wrapper>>

\* Any stored string other than null counts as muted.
Truthy(s) == s # "null"

\* storedMute === 'true'
ParseStored(s) == s = "true"

\* The two mount effects in order: the first reads the stored flag and
\* sets muted from it, the second writes the muted of the first render;
\* then the re-render the first one caused, if the state changed.
MountEffects ==
  /\ provider = "mounted"
  /\ LET next == IF stored # "null" THEN ParseStored(stored) ELSE muted
     IN /\ stored' = String(muted)
        /\ muted' = next
        /\ provider' = IF next # muted THEN "restore" ELSE "settled"
  /\ UNCHANGED <<options, loader, storedAtMount, mounts, soundPack, wrapper>>

\* The provider is unmounted (the session ends); localStorage survives.
ProviderUnmount ==
  /\ provider = "settled"
  /\ provider' = "unmounted"
  /\ UNCHANGED <<options, muted, loader, stored, storedAtMount, mounts,
                 soundPack, wrapper>>

NextProvider ==
  \/ ProviderMount
  \/ MountEffects
  \/ PersistMuted
  \/ ToggleMute
  \/ ProviderUnmount

SpecProvider == InitProvider /\ [][NextProvider]_vars

(***************************************************************************)
(* Vocabulary of the properties.                                           *)
(***************************************************************************)
Loads == 1..Len(loads)
Sessions == 1..Len(sessions)
Contexts == 1..Len(contexts)

InFlight == {l \in Loads : loads[l].status = "pending"}

\* The entries of the list that load l has decoded.
Ok(l) == {i \in 1..Len(urls) : loads[l].results[i] = "ok"}

\* bufs holds the buffers load l decoded, each once, in list order.
ExactlyDecoded(bufs, l) ==
  /\ \A k \in 1..Len(bufs) : bufs[k].load = l /\ bufs[k].idx \in Ok(l)
  /\ \A i \in Ok(l) : \E k \in 1..Len(bufs) : bufs[k].idx = i
  /\ \A j, k \in 1..Len(bufs) : j < k => bufs[j].idx < bufs[k].idx

\* bufs is what a finished load l yields: its decoded buffers, or silence.
CompleteResult(bufs, l) ==
  /\ \A i \in 1..Len(urls) : loads[l].results[i] \in {"ok", "fail"}
  /\ IF Ok(l) = {} THEN bufs = <<Silence(l)>> ELSE ExactlyDecoded(bufs, l)

\* This step is a call of the returned play function.
TriggerStep == triggers' = triggers + 1

\* This step is the continuation of load l that marks the loader loaded.
Completes(l) == loads[l].status = "pending" /\ loads'[l].status = "resolved"

\* This step ends load l, with or without an error.
Finishes(l) == loads[l].status = "pending" /\ loads'[l].status # "pending"

\* The loader is mounted and the mute flag is off.
Audible == ~muted /\ ~disposed

\* This step starts a playback session.
SessionStarts == Len(sessions') = Len(sessions) + 1

\* The session a step has started.
Started == sessions'[Len(sessions')]

\* Nothing is in flight, queued or playing.
Quiescent ==
  /\ InFlight = {}
  /\ ~Microtask
  /\ \A s \in Sessions : sessions[s].ended

RECURSIVE ErrorCalls(_, _)
\* The number of onLoadError calls for entry i of the list in loads 1..l.
ErrorCalls(i, l) ==
  IF l = 0 THEN 0 ELSE loads[l].errors[i] + ErrorCalls(i, l - 1)

(***************************************************************************)
(* C1: in lazy mode, triggers issued before the first load completes start *)
(* at most one load: while the first load is in flight no second load      *)
(* exists, so no two loads are in flight and no resource is fetched twice. *)
(***************************************************************************)
C1_SingleLoad ==
  (lazyLoad /\ Len(loads) >= 1 /\ loads[1].status = "pending")
    => (Len(loads) = 1 /\ Cardinality(InFlight) <= 1)

(***************************************************************************)
(* C2: in lazy mode every playback session starts with the loaded flag set *)
(* and plays from the complete result of a finished load: all the buffers  *)
(* that load decoded, in list order, or its single silent buffer.          *)
(***************************************************************************)
C2_CompleteSet ==
  lazyLoad =>
    \A s \in Sessions :
      /\ sessions[s].loaded
      /\ \E l \in Loads :
           /\ loads[l].status = "resolved"
           /\ CompleteResult(sessions[s].set, l)

\* Two lazy triggers before any load completed, both replayed, one of them
\* against a set of two decoded buffers.
C2_Witness ==
  /\ lazyLoad
  /\ Len(loads) = 2
  /\ \A l \in Loads : loads[l].then = "ran"
  /\ Len(sessions) = 2
  /\ \E s \in Sessions : Len(sessions[s].set) = 2

(***************************************************************************)
(* C3: a trigger called while the mute flag is true changes nothing: no    *)
(* context is created, no session and no load started, and the buffer set, *)
(* the shared context and the loaded flag stay as they are.                *)
(***************************************************************************)
C3_MutedTriggerNoEffect ==
  [][(TriggerStep /\ muted) =>
       UNCHANGED <<contextRef, buffersRef, hasLoaded, contexts, loads,
                   sessions>>]_vars

\* A lazy loader that was triggered and still has no load: every trigger so
\* far was muted.
C3_Witness ==
  /\ lazyLoad
  /\ muted
  /\ triggers = 2
  /\ Len(loads) = 0
  /\ Len(contexts) = 0
(***************************************************************************)
(* C4: with oneShot, the contexts created by triggers are one per playback *)
(* session and never shared; each is closed at most once and only after    *)
(* its own session ended, and once nothing is in flight or playing each    *)
(* has been closed exactly once.                                           *)
(***************************************************************************)
C4_OneShotIsolation ==
  oneShot =>
    /\ \A s, t \in Sessions :
         sessions[s].context = sessions[t].context => s = t
    /\ \A c \in Contexts :
         contexts[c].by = "play" =>
           /\ contexts[c].closes <= 1
           /\ contexts[c].closes = 1 =>
                \E s \in Sessions :
                  sessions[s].context = c /\ sessions[s].ended
           /\ Quiescent => contexts[c].closes = 1

(***************************************************************************)
(* C5: without oneShot at most one context is ever created, and every      *)
(* playback session uses it.                                               *)
(***************************************************************************)
C5_SingleSharedContext ==
  ~oneShot =>
    /\ Len(contexts) <= 1
    /\ \A s \in Sessions : sessions[s].context = 1

(***************************************************************************)
(* C6: with lazyLoad false, a trigger called while the eager load is still *)
(* in flight changes nothing, whatever oneShot and shuffle are: no load,   *)
(* no context, no session, same buffer set and shared context.             *)
(***************************************************************************)
C6_EarlyTriggerNoEffect ==
  [][(TriggerStep /\ ~lazyLoad /\ loads[1].status = "pending") =>
       UNCHANGED <<contextRef, buffersRef, hasLoaded, contexts, loads,
                   sessions>>]_vars

(***************************************************************************)
(* C7: once the loader is disposed the buffer set is empty and the shared  *)
(* context is closed, and every later step keeps it so: a load completing  *)
(* after disposal sets neither the buffer set nor the loaded flag.         *)
(***************************************************************************)
C7_DisposedStaysReleased ==
  [][disposed =>
       /\ Len(buffersRef') = 0
       /\ hasLoaded' = hasLoaded
       /\ (contextRef' = 0 \/ contexts'[contextRef'].closes > 0)]_vars

(***************************************************************************)
(* C8: a trigger called after disposal starts no playback session, starts  *)
(* no load and creates no context.                                         *)
(***************************************************************************)
C8_NoPlayAfterDispose ==
  [][(TriggerStep /\ disposed) =>
       UNCHANGED <<sessions, loads, contexts>>]_vars

(***************************************************************************)
(* C9 as stated: a load that completes leaves exactly the buffers of the   *)
(* resources it decoded, in list order, whatever the order in which they   *)
(* settled; when all decoded, as many buffers as the list has entries.     *)
(***************************************************************************)
C9_AlwaysExactlyDecoded ==
  [][\A l \in Loads :
       Completes(l) =>
         /\ ExactlyDecoded(buffersRef', l)
         /\ Ok(l) = 1..Len(urls) => Len(buffersRef') = Len(urls)]_vars

(***************************************************************************)
(* C9 amended: a load that completes with at least one decoded resource    *)
(* leaves exactly the decoded buffers, in list order, and as many as the   *)
(* list has entries when all decoded; a load that completes with no        *)
(* decoded resource leaves the single silent buffer.                       *)
(***************************************************************************)
C9_ExactlyDecodedOrSilence ==
  [][\A l \in Loads :
       Completes(l) =>
         IF Ok(l) = {}
         THEN buffersRef' = <<Silence(l)>>
         ELSE /\ ExactlyDecoded(buffersRef', l)
              /\ Ok(l) = 1..Len(urls) => Len(buffersRef') = Len(urls)]_vars

\* A load of two resources has completed with the first failed and the
\* second decoded, and the buffer set is the second one's buffer.
C9_Witness ==
  \E l \in Loads :
    /\ loads[l].status = "resolved"
    /\ loads[l].results = <<"fail", "ok">>
    /\ buffersRef = <<Buffer(l, 2)>>

(***************************************************************************)
(* C10: over the lifetime of the loader onLoadError is called exactly once *)
(* for each resource that failed and never for one that did not fail.      *)
(***************************************************************************)
C10_OneErrorPerFailedResource ==
  \A i \in 1..Len(urls) :
    ErrorCalls(i, Len(loads)) =
      IF \E l \in Loads : loads[l].results[i] = "fail" THEN 1 ELSE 0
(***************************************************************************)
(* C11: with fallbackToSilence true or unset, a load in which no resource  *)
(* decoded (all failed, or the list is empty) ends without error, leaves   *)
(* exactly its silent buffer and marks the loader loaded; an unmuted       *)
(* trigger on that buffer set then starts a session playing the silent     *)
(* buffer.                                                                 *)
(***************************************************************************)
C11_SilentFallback ==
  [][(fallbackToSilence = "true" \/ fallbackToSilence = "undefined") =>
       \A l \in Loads :
         /\ (Finishes(l) /\ Ok(l) = {}) =>
              /\ loads'[l].status = "resolved"
              /\ buffersRef' = <<Silence(l)>>
              /\ hasLoaded'
         /\ (TriggerStep /\ Audible /\ buffersRef = <<Silence(l)>>) =>
              /\ SessionStarts
              /\ Started.buffer = Silence(l)]_vars

\* With the option unset, a load of two resources that both failed has
\* resolved and a session plays its silent buffer.
C11_Witness ==
  /\ fallbackToSilence = "undefined"
  /\ \E l \in Loads :
       /\ loads[l].status = "resolved"
       /\ loads[l].results = <<"fail", "fail">>
       /\ \E s \in Sessions : sessions[s].buffer = Silence(l)
(***************************************************************************)
(* C12: with fallbackToSilence false, once a load of a non-empty list has  *)
(* failed because every resource failed, the buffer set is empty, the      *)
(* loader is not marked loaded, and no later step starts a session.        *)
(***************************************************************************)
C12_FailedLoadStaysFailed ==
  [][(\E l \in Loads : loads'[l].status = "rejected" /\ Len(urls) > 0) =>
       /\ Len(buffersRef') = 0
       /\ ~hasLoaded'
       /\ Len(sessions') = Len(sessions)]_vars
\* The contexts created by loadSounds so far.
LoadContexts(ctxs) == {c \in 1..Len(ctxs) : ctxs[c].by = "load"}

(***************************************************************************)
(* C13: once a load has completed, no later call of play starts another    *)
(* load: no fetch, no decode and no context for loading, and the trigger   *)
(* leaves the buffer set, the shared context and the loaded flag as the    *)
(* completed load left them.                                               *)
(***************************************************************************)
C13_LoadOnce ==
  [][(\E l \in Loads : loads[l].status = "resolved") =>
       /\ Len(loads') = Len(loads)
       /\ LoadContexts(contexts') = LoadContexts(contexts)
       /\ TriggerStep => UNCHANGED <<buffersRef, contextRef, hasLoaded>>]_vars

\* A lazy loader whose only load has resolved has been triggered twice
\* without mute: the second trigger found the loader loaded.
C13_Witness ==
  /\ lazyLoad
  /\ triggers = 2
  /\ Len(loads) = 1
  /\ loads[1].status = "resolved"
  /\ Len(sessions) = 2

(***************************************************************************)
(* C14: with shuffle false every playback session plays the buffer at      *)
(* index 0 of the buffer set; when every resource of the load that filled  *)
(* the set (a non-empty list) decoded, that is the buffer of the first      *)
(* resource of the list.                                                   *)
(***************************************************************************)
C14_FirstBuffer ==
  ~shuffle =>
    \A s \in Sessions :
      /\ sessions[s].index = 0
      /\ sessions[s].buffer = sessions[s].set[1]
      /\ (Len(urls) > 0 /\ Ok(sessions[s].buffer.load) = 1..Len(urls)) =>
           sessions[s].buffer.idx = 1

\* Without shuffle, two sessions have played from a set of two decoded
\* buffers, both the buffer of the first resource.
C14_Witness ==
  /\ ~shuffle
  /\ Len(sessions) = 2
  /\ \A s \in Sessions :
       Len(sessions[s].set) = 2 /\ sessions[s].buffer.idx = 1
\* The loader is disposed, no load is in flight or queued for replay, and
\* every source that has an onended handler has ended.
AllEnded ==
  /\ disposed
  /\ InFlight = {}
  /\ ~Microtask
  /\ \A s \in Sessions : sessions[s].onended => sessions[s].ended

(***************************************************************************)
(* C17: once the loader is disposed, no load is in flight and every        *)
(* started one-shot session has ended, every context the loader created,   *)
(* in loadSounds or in play, has been closed.                              *)
(***************************************************************************)
C17_NoContextLeft ==
  AllEnded => \A c \in Contexts : contexts[c].closes >= 1

(***************************************************************************)
(* C18: no playback session starts while the mute flag is true, the        *)
(* replayed play of a lazy trigger included.                               *)
(***************************************************************************)
C18_NoSessionWhileMuted ==
  [][SessionStarts => ~muted]_vars

(***************************************************************************)
(* C19: in a loader that is not disposed, the loaded flag implies a        *)
(* non-empty buffer set.                                                   *)
(***************************************************************************)
C19_LoadedHasBuffers ==
  (~disposed /\ hasLoaded) => Len(buffersRef) > 0
(***************************************************************************)
(* Sounded: one wrapped element and the hook of its click sound.  The hook *)
(* of the hover sound is a second instance of the same code; its refs are  *)
(* not represented.                                                        *)
(***************************************************************************)

Themes == {"light", "dark"}
Overrides == {"", "/custom/click.mp3"}
Flags == {"undefined", "true", "false"}

\* soundMap[theme].click
SoundMapClick(t) ==
  IF t = "light" THEN "/sounds/click_light.mp3" ELSE "/sounds/click_dark.mp3"

\* overrideClick || sounds.click
ClickUrl(t, o) == IF o # "" THEN o ELSE SoundMapClick(t)

\* Sounded after its first render: useSound([overrideClick || sounds.click])
\* with no options, under a settled provider.
InitSounded ==
  /\ theme \in Themes
  /\ overrideClick \in Overrides
  /\ urls = <<ClickUrl(theme, overrideClick)>>
  /\ lazyLoad = FALSE
  /\ shuffle = FALSE
  /\ oneShot = FALSE
  /\ fallbackToSilence = "undefined"
  /\ FirstRender
  /\ ProviderSettled
  /\ props \in [sound : Flags, clickSound : Flags, hoverSound : Flags,
                 onClick : BOOLEAN, onMouseEnter : BOOLEAN]
  /\ event = "none"
  /\ calls = <<>>

\* The click trigger guarded by either flag alone.
ClickEnabledByEither(p) == p.sound # "false" \/ p.clickSound # "false"

\* sound !== false && clickSound !== false
ClickEnabled(p) == p.sound # "false" /\ p.clickSound # "false"

\* sound !== false && hoverSound !== false
HoverEnabled(p) == p.sound # "false" /\ p.hoverSound # "false"

\* The injected onClick: playClick() if enabled, then the child's onClick.
Click ==
  /\ ~Microtask
  /\ ~disposed
  /\ event' = "click"
  /\ calls' = (IF ClickEnabled(props) THEN <<"playClick">> ELSE <<>>)
               \o (IF props.onClick THEN <<"onClick">> ELSE <<>>)
  /\ IF ClickEnabled(props)
     THEN /\ triggers < MaxTriggers
          /\ triggers' = triggers + 1
          /\ Play(muted, loads)
     ELSE UNCHANGED <<refs, contexts, loads, sessions, triggers>>
  /\ UNCHANGED <<options, muted, disposed, persistence, soundPack, props>>

\* The injected onMouseEnter: playHover() if enabled, then the child's
\* onMouseEnter.
MouseEnter ==
  /\ ~Microtask
  /\ ~disposed
  /\ event' = "mouseenter"
  /\ calls' = (IF HoverEnabled(props) THEN <<"playHover">> ELSE <<>>)
               \o (IF props.onMouseEnter THEN <<"onMouseEnter">> ELSE <<>>)
  /\ UNCHANGED <<options, muted, loader, persistence, soundPack, props>>

\* A re-render of Sounded with another theme or override: useSound gets a
\* new list, its mount effect (dependencies []) does not run again.
Rerender(t, o) ==
  /\ ~Microtask
  /\ ~disposed
  /\ <<t, o>> # <<theme, overrideClick>>
  /\ theme' = t
  /\ overrideClick' = o
  /\ urls' = <<ClickUrl(t, o)>>
  /\ UNCHANGED <<lazyLoad, shuffle, oneShot, fallbackToSilence, muted,
                 loader, persistence, wrapper>>

\* The provider's theme prop changes.
SetTheme(t) == Rerender(t, overrideClick)

\* The overrideClick prop of the element changes.
SetOverride(o) == Rerender(theme, o)

NextSounded ==
  \/ Click
  \/ MouseEnter
  \/ \E l \in 1..Len(loads), i \in 1..Len(urls), ok \in BOOLEAN : Settle(l, i, ok)
  \/ \E l \in 1..Len(loads) : LoadComplete(l)
  \/ Dispose
  \/ ToggleMute
  \/ PersistMuted
  \/ \E t \in Themes : SetTheme(t)
  \/ \E o \in Overrides : SetOverride(o)

SpecSounded == InitSounded /\ [][NextSounded]_vars

\* The mount of the provider settles: its effects and the re-render they
\* caused are done, and no toggle has happened yet.
MountSettles == provider \in {"mounted", "restore"} /\ provider' = "settled"

\* C15: The mute flag is persistent: once the provider's effects have run,
\* the value stored under 'plebs-muted' is the current muted flag, whatever
\* toggles were made; and a provider mounted later settles with muted equal
\* to the value that was stored when it mounted.
C15_MutePersists ==
  /\ [](provider = "settled" =>
          (muted /\ stored = "true") \/ (~muted /\ stored = "false"))
  /\ [][MountSettles => (muted' <=> storedAtMount = "true")]_vars

\* A second session has restored the mute set by a toggle of an earlier one.
C15_Witness ==
  /\ provider = "settled"
  /\ mounts > 1
  /\ storedAtMount = "true"
  /\ muted
  /\ stored = "true"

\* Number of times the last event's handler made the call c.
Called(c) == Cardinality({i \in 1..Len(calls) : calls[i] = c})

\* The call c was the last thing the handler did.
CalledLast(c) == Len(calls) > 0 /\ calls[Len(calls)] = c

\* C16: For every click or mouse-enter on a wrapped element, the child's
\* own handler for that event, when present, is invoked exactly once and
\* after the sound trigger, whatever the flags are; the click trigger is
\* called iff sound is not false and clickSound is not false, the hover
\* trigger iff sound is not false and hoverSound is not false.
C16_HandlersMerged ==
  /\ event = "click" =>
       /\ Called("onClick") = (IF props.onClick THEN 1 ELSE 0)
       /\ props.onClick => CalledLast("onClick")
       /\ Called("playClick") =
            (IF props.sound # "false" /\ props.clickSound # "false"
             THEN 1 ELSE 0)
       /\ Called("playHover") = 0 /\ Called("onMouseEnter") = 0
  /\ event = "mouseenter" =>
       /\ Called("onMouseEnter") = (IF props.onMouseEnter THEN 1 ELSE 0)
       /\ props.onMouseEnter => CalledLast("onMouseEnter")
       /\ Called("playHover") =
            (IF props.sound # "false" /\ props.hoverSound # "false"
             THEN 1 ELSE 0)
       /\ Called("playClick") = 0 /\ Called("onClick") = 0

\* A click on an element whose click sound is switched off by clickSound
\* alone: only the child's handler ran.
C16_Witness ==
  /\ event = "click"
  /\ props.sound = "true"
  /\ props.clickSound = "false"
  /\ props.onClick
  /\ calls = <<"onClick">>

\* The URL the buffer b was decoded from.
BufferUrl(b) == loads[b.load].urls[b.idx]

\* C20: The sound played by a Sounded element is the one of the current
\* theme or override: a click that starts a session with a decoded buffer
\* plays a buffer decoded from the URL of the current render, also after the
\* theme or the override changed on the mounted element.
C20_PlaysCurrentSound ==
  [][(SessionStarts /\ Started.buffer.idx > 0)
       => BufferUrl(Started.buffer) = ClickUrl(theme, overrideClick)]_vars

====
